---- MODULE Spec2Model ----
(***************************************************************************)
(* Novel-Forge Tracker v2.0 (app/main.py): a Streamlit script over a       *)
(* TinyDB store.  Every user interaction re-runs the script top to bottom: *)
(* load_demo_data(), autosave(), refresh_session(), the sidebar word-count *)
(* dashboard, then the tabs, where at most one "Save" button handler runs. *)
(* The model follows one script run statement by statement (pc), keeps the *)
(* TinyDB tables, the snapshot directory and st.session_state as state,    *)
(* and lets the calendar date advance at any point.                        *)
(***************************************************************************)
EXTENDS Integers, Sequences, FiniteSets, TLC

VARIABLES
    db,        \* TinyDB file: table name -> sequence of documents (insertion order)
    snaps,     \* SNAPSHOT_DIR: date of the file name -> the list json.dump wrote
    today,     \* dt.date.today(), as a day number
    session,   \* st.session_state: the keys that are set -> their working copy
    pc,        \* the statement the running script is at; "done" between runs
    clicked,   \* the Save button the current run found clicked ("none" until the tabs)
    edited,    \* the records the clicked handler got from its data editor
    raised,    \* the exception that ended the current run ("none" when it did not raise)
    auto,      \* what the last autosave() call of the current run did
    faults,    \* number of unlink() calls that failed so far
    taken,     \* history: the dates on which autosave() wrote a snapshot
    dash       \* the sidebar's total_words, start_words and delta

vars == <<db, snaps, today, session, pc, clicked, edited, raised, auto, faults, taken, dash>>

----------------------------------------------------------------------------
(* Bounds of the model. *)

\* Days and editor rows explored by Spec (the store and the session).
StoreDays == 2
StoreRows == 2
\* Days and editor rows explored by SpecSnap (the snapshot directory).
SnapDays == 7
SnapRows == 1
\* Editor rows explored by SpecFilter, chapters explored by SpecAgg.
FilterRows == 2
AggRows == 2
\* How many unlink() calls the environment lets fail in one behaviour.
MaxFaults == 1

(* Program constants. *)
MAX_SNAPSHOTS == 5

----------------------------------------------------------------------------
(* Values.  Python's None, False, True and a pandas Timestamp are kept     *)
(* apart from the strings a cell can hold.                                 *)
NoneVal == "<None>"
FalseVal == "<False>"
TrueVal == "<True>"
Timestamp == "<Timestamp>"

\* dict.get(k, d)
Get(r, k, d) == IF k \in DOMAIN r THEN r[k] ELSE d

Range(s) == {s[i] : i \in 1..Len(s)}

\* All sequences over S of length at most n.
SeqsUpTo(S, n) == UNION {[1..k -> S] : k \in 0..n}

RECURSIVE SumSeq(_)
SumSeq(s) == IF Len(s) = 0 THEN 0 ELSE Head(s) + SumSeq(Tail(s))

\* refresh_session's mapping: session key -> table
Mapping == [chapters |-> "chapters", todos |-> "todos", passes |-> "edit_passes"]
Keys == DOMAIN Mapping
Tables == {"_default", "chapters", "todos", "edit_passes"}

----------------------------------------------------------------------------
(* Records.  A record is a function from the field names it has to their   *)
(* values; a field it lacks is not in its DOMAIN.                          *)

\* Chapter rows a user submits in Spec and SpecSnap; chT is a row of a frame
\* with a deadline column, which pd.to_datetime has made a Timestamp.
chA == ("#" :> "1") @@ [status |-> "Draft", word_count |-> 1000, start_words |-> 800]
chB == ("#" :> "2") @@ [status |-> "Draft", word_count |-> 500, start_words |-> 500]
chT == ("#" :> "3") @@ [status |-> "Draft", word_count |-> 500, start_words |-> 0,
                        deadline |-> Timestamp]
ChapterRows == {chA, chB, chT}

\* assets/test_data.json, the "three-chapter demo set".
Demo ==
    << ("#" :> "1") @@ [status |-> "Draft", word_count |-> 1000, start_words |-> 800],
       ("#" :> "2") @@ [status |-> "Not Started", word_count |-> 500],
       ("#" :> "3") @@ [status |-> "Not Started", word_count |-> 0, start_words |-> 0] >>

\* To-do rows: the editor's scratch row and a real task.
todoBlank == [task |-> "", done |-> FalseVal]
todoTask == [task |-> "write ch2", done |-> FalseVal]
TodoRows == {todoBlank, todoTask}

\* Editing-pass rows: the editor's scratch row and a real pass.
passBlank == [focus |-> "", status |-> FalseVal, chapter |-> ""]
passReal == [focus |-> "Pacing", status |-> TrueVal, chapter |-> "1"]
PassRows == {passBlank, passReal}

\* Every to-do and pass row over the cell values an editor can return (SpecFilter).
AllTodoRows == [task : {"", NoneVal, "write ch2"}, done : {FalseVal, TrueVal, NoneVal}]
AllPassRows ==
    [focus : {"", NoneVal, "Pacing"}, status : {FalseVal, TrueVal, NoneVal},
     chapter : {"", NoneVal, "1"}]

\* Every chapter over the word-count fields, each present or absent (SpecAgg).
WordVals == {0, 500, 800, 1000}
AllChapterRows ==
    UNION {[D -> WordVals] : D \in SUBSET {"word_count", "start_words"}}

----------------------------------------------------------------------------
(* TinyDB.                                                                 *)

\* Mutant of Truncate: the old documents stay, so a save merges.
TruncateKeeps(docs) == docs

\* Table.truncate(): the table's documents are dropped and the file written.
Truncate(docs) == << >>

\* Table.insert_multiple(records): the documents are appended in order.
InsertMultiple(docs, records) == docs \o records

\* json.dumps of the storage fails on a pandas Timestamp; only the
\* columns main.py coerces with pd.to_datetime hold one.
DateCols == {"deadline", "last_edited"}
Serializable(records) ==
    \A r \in Range(records) : \A k \in (DOMAIN r) \cap DateCols : r[k] # Timestamp

\* db.all(): TinyDB forwards an attribute it lacks to its default table, so
\* this is the documents of "_default", not of the three named tables.
DbAll(d) == d["_default"]

----------------------------------------------------------------------------
(* Snapshots.                                                              *)

\* sorted(SNAPSHOT_DIR.glob("*.json")): ISO dates sort chronologically.
RECURSIVE Sorted(_)
Sorted(S) ==
    IF S = {} THEN << >>
    ELSE LET m == CHOOSE x \in S : \A y \in S : x <= y
         IN  <<m>> \o Sorted(S \ {m})

\* Mutant of OldSnaps: the slice is off by one and keeps one file fewer.
OldSnapsOffByOne(files) ==
    LET s == Sorted(files)
    IN  SubSeq(s, 1, IF Len(s) > MAX_SNAPSHOTS - 1 THEN Len(s) - (MAX_SNAPSHOTS - 1) ELSE 0)

\* snaps[:-MAX_SNAPSHOTS]
OldSnaps(files) ==
    LET s == Sorted(files)
    IN  SubSeq(s, 1, IF Len(s) > MAX_SNAPSHOTS THEN Len(s) - MAX_SNAPSHOTS ELSE 0)

\* The directory after the file of `day` is written with `content`.
WriteSnap(dir, day, content) ==
    [d \in (DOMAIN dir) \cup {day} |-> IF d = day THEN content ELSE dir[d]]

\* The directory after the files of `gone` are unlinked.
Unlink(dir, gone) == [d \in (DOMAIN dir) \ gone |-> dir[d]]

\* Mutant of Autosave: no exists() test, every call writes and prunes.
AutosaveAlways(d) ==
    LET written == WriteSnap(snaps, today, DbAll(d))
        old == OldSnaps(DOMAIN written)
    IN  /\ snaps' = Unlink(written, Range(old))
        /\ auto' = "wrote"
        /\ faults' = faults
        /\ taken' = taken \cup {today}

\* autosave(), called with the store as it is at the call.  The first
\* unlink() that fails raises out of the loop and out of autosave().
Autosave(d) ==
    IF today \in DOMAIN snaps
    THEN /\ snaps' = snaps
         /\ auto' = "noop"
         /\ faults' = faults
         /\ taken' = taken
    ELSE LET written == WriteSnap(snaps, today, DbAll(d))
             old == OldSnaps(DOMAIN written)
         IN  \E k \in 0..Len(old) :
                /\ k = Len(old) \/ faults < MaxFaults
                /\ snaps' = Unlink(written, {old[i] : i \in 1..k})
                /\ auto' = IF k = Len(old) THEN "wrote" ELSE "unlink_failed"
                /\ faults' = IF k = Len(old) THEN faults ELSE faults + 1
                /\ taken' = taken \cup {today}

----------------------------------------------------------------------------
(* The sidebar.                                                            *)

TotalWords(chapters) ==
    SumSeq([i \in 1..Len(chapters) |-> Get(chapters[i], "word_count", 0)])

\* Mutant of StartWords: a chapter without start_words counts 0.
StartWordsNoFallback(chapters) ==
    SumSeq([i \in 1..Len(chapters) |-> Get(chapters[i], "start_words", 0)])

StartWords(chapters) ==
    SumSeq([i \in 1..Len(chapters) |->
               Get(chapters[i], "start_words", Get(chapters[i], "word_count", 0))])

----------------------------------------------------------------------------
(* The save handlers' record lists.                                        *)

\* bool(v) of a cell value
Truthy(v) == v \notin {"", NoneVal, FalseVal}

\* Save passes: "ignore blank rows"
PassRecords(rows) ==
    SelectSeq(rows, LAMBDA r : \E k \in DOMAIN r : r[k] \notin {"", NoneVal})

\* Save todos
TodoRecords(rows) == SelectSeq(rows, LAMBDA r : Truthy(Get(r, "task", NoneVal)))

\* Save chapters: every row of the editor
ChapterRecords(rows) == rows

----------------------------------------------------------------------------
(* One script run.                                                         *)

Init ==
    /\ db = [t \in Tables |-> << >>]
    /\ snaps = << >>
    /\ today = 1
    /\ session = [k \in {} |-> << >>]
    /\ pc = "load_demo_data"
    /\ clicked = "none"
    /\ edited = << >>
    /\ raised = "none"
    /\ auto = "none"
    /\ faults = 0
    /\ taken = {}
    /\ dash = [total_words |-> 0, start_words |-> 0, delta |-> 0]

\* A user interaction starts the next run of the script.
Rerun ==
    /\ pc = "done"
    /\ pc' = "load_demo_data"
    /\ clicked' = "none"
    /\ edited' = << >>
    /\ raised' = "none"
    /\ auto' = "none"
    /\ UNCHANGED <<db, snaps, today, session, faults, taken, dash>>

\* The page is opened anew: a fresh st.session_state, and the script runs.
NewSession ==
    /\ pc = "done"
    /\ session' = [k \in {} |-> << >>]
    /\ pc' = "load_demo_data"
    /\ clicked' = "none"
    /\ edited' = << >>
    /\ raised' = "none"
    /\ auto' = "none"
    /\ UNCHANGED <<db, snaps, today, faults, taken, dash>>

\* The calendar date advances, at any point of a run or between runs.
Midnight(days) ==
    /\ today < days
    /\ today' = today + 1
    /\ UNCHANGED <<db, snaps, session, pc, clicked, edited, raised, auto, faults, taken, dash>>

LoadDemoData ==
    /\ pc = "load_demo_data"
    /\ db' = IF Len(db["chapters"]) = 0
             THEN [db EXCEPT !["chapters"] = InsertMultiple(@, Demo)]
             ELSE db
    /\ pc' = "autosave"
    /\ UNCHANGED <<snaps, today, session, clicked, edited, raised, auto, faults, taken, dash>>

\* The autosave() call at the top of the script.
AutosaveTop ==
    /\ pc = "autosave"
    /\ Autosave(db)
    /\ raised' = IF auto' = "unlink_failed" THEN "unlink" ELSE "none"
    /\ pc' = IF auto' = "unlink_failed" THEN "done" ELSE "refresh_session"
    /\ UNCHANGED <<db, today, session, clicked, edited, dash>>

\* Mutant of RefreshSession: every run reloads the working copies.
RefreshSessionReloads ==
    /\ pc = "refresh_session"
    /\ session' = [k \in Keys |-> db[Mapping[k]]]
    /\ pc' = "sidebar"
    /\ UNCHANGED <<db, snaps, today, clicked, edited, raised, auto, faults, taken, dash>>

RefreshSession ==
    /\ pc = "refresh_session"
    /\ session' = [k \in Keys |->
                      IF k \notin DOMAIN session THEN db[Mapping[k]] ELSE session[k]]
    /\ pc' = "sidebar"
    /\ UNCHANGED <<db, snaps, today, clicked, edited, raised, auto, faults, taken, dash>>

Sidebar ==
    /\ pc = "sidebar"
    /\ LET total_words == TotalWords(session["chapters"])
           start_words == StartWords(session["chapters"])
       IN  dash' = [total_words |-> total_words, start_words |-> start_words,
                    delta |-> total_words - start_words]
    /\ pc' = "tabs"
    /\ UNCHANGED <<db, snaps, today, session, clicked, edited, raised, auto, faults, taken>>

\* The body of a Save handler: truncate, insert_multiple, the session's
\* working copy, autosave().  A write that raises ends the run there.
Save(key, records) ==
    LET table == Mapping[key]
        truncated == [db EXCEPT ![table] = Truncate(@)]
        inserted == [truncated EXCEPT ![table] = InsertMultiple(@, records)]
    IN  IF Serializable(records)
        THEN /\ db' = inserted
             /\ session' = [session EXCEPT ![key] = records]
             /\ Autosave(inserted)
             /\ raised' = IF auto' = "unlink_failed" THEN "unlink" ELSE "none"
        ELSE /\ db' = truncated
             /\ raised' = "write"
             /\ UNCHANGED <<session, snaps, auto, faults, taken>>

SaveChapters(rowSet, maxRows) ==
    /\ pc = "tabs"
    /\ \E rows \in SeqsUpTo(rowSet, maxRows) :
          /\ clicked' = "chapters"
          /\ edited' = rows
          /\ Save("chapters", ChapterRecords(rows))
    /\ pc' = "done"
    /\ UNCHANGED <<today, dash>>

SavePasses(rowSet, maxRows) ==
    /\ pc = "tabs"
    /\ \E rows \in SeqsUpTo(rowSet, maxRows) :
          /\ clicked' = "passes"
          /\ edited' = rows
          /\ Save("passes", PassRecords(rows))
    /\ pc' = "done"
    /\ UNCHANGED <<today, dash>>

SaveTodos(rowSet, maxRows) ==
    /\ pc = "tabs"
    /\ \E rows \in SeqsUpTo(rowSet, maxRows) :
          /\ clicked' = "todos"
          /\ edited' = rows
          /\ Save("todos", TodoRecords(rows))
    /\ pc' = "done"
    /\ UNCHANGED <<today, dash>>

\* No Save button was clicked: the run ends after drawing the tabs.
NoSave ==
    /\ pc = "tabs"
    /\ pc' = "done"
    /\ UNCHANGED <<db, snaps, today, session, clicked, edited, raised, auto, faults, taken, dash>>

Next(days, rows, chapterRows, passRows, todoRows) ==
    \/ Rerun
    \/ NewSession
    \/ Midnight(days)
    \/ LoadDemoData
    \/ AutosaveTop
    \/ RefreshSession
    \/ Sidebar
    \/ SaveChapters(chapterRows, rows)
    \/ SavePasses(passRows, rows)
    \/ SaveTodos(todoRows, rows)
    \/ NoSave

\* The store and the session: few days, longer record lists.
Spec == Init /\ [][Next(StoreDays, StoreRows, ChapterRows, PassRows, TodoRows)]_vars

\* The snapshot directory: enough days to prune, short record lists.
SpecSnap == Init /\ [][Next(SnapDays, SnapRows, {chB}, {passReal}, {todoTask})]_vars

----------------------------------------------------------------------------
(* The save handlers of the free-form tables alone, applied to every row   *)
(* list an editor can return, from the state the first run shows its tabs  *)
(* in.                                                                     *)

InitFilter ==
    /\ db = [t \in Tables |-> IF t = "chapters" THEN Demo ELSE << >>]
    /\ snaps = WriteSnap(<< >>, 1, << >>)
    /\ today = 1
    /\ session = [k \in Keys |-> IF k = "chapters" THEN Demo ELSE << >>]
    /\ pc = "tabs"
    /\ clicked = "none"
    /\ edited = << >>
    /\ raised = "none"
    /\ auto = "wrote"
    /\ faults = 0
    /\ taken = {1}
    /\ dash = [total_words |-> 1500, start_words |-> 1300, delta |-> 200]

NextFilter ==
    \/ SavePasses(AllPassRows, FilterRows)
    \/ SaveTodos(AllTodoRows, FilterRows)

SpecFilter == InitFilter /\ [][NextFilter]_vars

(* The sidebar alone, applied to every chapters list a session can hold.   *)

InitAgg ==
    /\ \E chapters \in SeqsUpTo(AllChapterRows, AggRows) :
          /\ session = [k \in Keys |-> IF k = "chapters" THEN chapters ELSE << >>]
          /\ db = [t \in Tables |->
                      IF t = "chapters"
                      THEN (IF Len(chapters) = 0 THEN Demo ELSE chapters)
                      ELSE << >>]
    /\ snaps = WriteSnap(<< >>, 1, << >>)
    /\ today = 1
    /\ pc = "sidebar"
    /\ clicked = "none"
    /\ edited = << >>
    /\ raised = "none"
    /\ auto = "noop"
    /\ faults = 0
    /\ taken = {1}
    /\ dash = [total_words |-> 0, start_words |-> 0, delta |-> 0]

NextAgg == Sidebar

SpecAgg == InitAgg /\ [][NextAgg]_vars

----------------------------------------------------------------------------
(* Properties.                                                             *)

\* The step is a call of autosave(): the one at the top of the script, or
\* the one that ends a Save handler whose writes went through.
AutosaveCalled ==
    \/ pc = "autosave" /\ pc' # "autosave"
    \/ pc = "tabs" /\ pc' = "done" /\ clicked' \in Keys /\ raised' # "write"

\* The step is the Save handler of session key k.
SaveStep(k) == pc = "tabs" /\ pc' = "done" /\ clicked' = k

\* The record list the handler of key k hands to the store for the rows.
Submitted(k, rows) ==
    CASE k = "chapters" -> ChapterRecords(rows)
      [] k = "passes" -> PassRecords(rows)
      [] k = "todos" -> TodoRecords(rows)

\* The n latest dates of S.
Newest(S, n) == {d \in S : Cardinality({e \in S : e > d}) < n}

\* C1: once the snapshot of today's date exists, nothing changes the
\* snapshot directory while the date stays the same, and every autosave()
\* call made then writes nothing; after any autosave() call the snapshot of
\* the call's date exists.
C1_SameDayCheckpointOnce ==
    [][ /\ (today \in DOMAIN snaps /\ today' = today) =>
              /\ snaps' = snaps
              /\ AutosaveCalled => (auto' = "noop" /\ taken' = taken)
        /\ AutosaveCalled => today \in DOMAIN snaps'
      ]_vars

\* A Save handler's autosave() found today's snapshot written by an earlier call.
C1_Witness ==
    /\ pc = "done"
    /\ clicked \in Keys
    /\ auto = "noop"
    /\ today \in DOMAIN snaps

\* C2: as long as no unlink() has failed, the snapshots in the directory are
\* those of the MAX_SNAPSHOTS latest dates a checkpoint was taken on (so
\* exactly MAX_SNAPSHOTS of them once that many were taken), and after a
\* call that completed there are never more than MAX_SNAPSHOTS.
C2_RetentionBound ==
    /\ faults = 0 => DOMAIN snaps = Newest(taken, MAX_SNAPSHOTS)
    /\ faults = 0 /\ Cardinality(taken) >= MAX_SNAPSHOTS
          => Cardinality(DOMAIN snaps) = MAX_SNAPSHOTS
    /\ auto = "wrote" => Cardinality(DOMAIN snaps) <= MAX_SNAPSHOTS

\* A checkpoint on a date beyond the MAX_SNAPSHOTS-th has just completed.
C2_Witness ==
    /\ faults = 0
    /\ auto = "wrote"
    /\ Cardinality(taken) > MAX_SNAPSHOTS

\* The artifact's list holds every record of every collection of store d.
HoldsStore(content, d) ==
    \A k \in Keys :
        \A i \in 1..Len(d[Mapping[k]]) :
            \E j \in 1..Len(content) : content[j] = d[Mapping[k]][i]

\* C3: an autosave() call that writes today's snapshot writes every record
\* of chapters, todos and edit_passes as they are at the call.
C3_SnapshotIsFullCopy ==
    [][ (AutosaveCalled /\ auto' \in {"wrote", "unlink_failed"})
            => HoldsStore(snaps'[today], db') ]_vars

\* C4: a Save handler whose writes go through leaves its table holding
\* exactly the records it submitted, in order, and every other table as it was.
C4_FullOverwrite ==
    [][ \A k \in Keys :
            (SaveStep(k) /\ raised' # "write") =>
                /\ db'[Mapping[k]] = Submitted(k, edited')
                /\ \A t \in Tables \ {Mapping[k]} : db'[t] = db[t]
      ]_vars

\* Save chapters replaced the chapters already stored by two others, in order.
C4_Witness ==
    /\ pc = "done"
    /\ clicked = "chapters"
    /\ raised = "none"
    /\ edited = <<chB, chA>>
    /\ db["chapters"] = <<chB, chA>>

\* C5: whatever a Save handler does, its table afterwards holds either what
\* it held before or exactly the submitted records.
C5_ReplaceIsAtomic ==
    [][ \A k \in Keys :
            SaveStep(k) =>
                \/ db'[Mapping[k]] = db[Mapping[k]]
                \/ db'[Mapping[k]] = Submitted(k, edited')
      ]_vars

\* C6: an autosave() call in which an unlink() fails raises nothing, and
\* today's snapshot is there after it.
C6_PruneFailureIsSwallowed ==
    [][ (AutosaveCalled /\ auto' = "unlink_failed")
            => (raised' = "none" /\ today \in DOMAIN snaps') ]_vars

\* C7: a Save handler whose writes go through sets the working copy to the
\* records it stored, and no step but a Save of the same key changes a
\* working copy the session holds (a new session starts without it).
C7_WorkingCopyIsCommitted ==
    [][ \A k \in Keys :
            /\ (SaveStep(k) /\ raised' # "write") =>
                  /\ k \in DOMAIN session'
                  /\ session'[k] = Submitted(k, edited')
                  /\ session'[k] = db'[Mapping[k]]
            /\ (k \in DOMAIN session /\ k \in DOMAIN session' /\ ~SaveStep(k)) =>
                  session'[k] = session[k]
      ]_vars

\* The empty chapters list was committed, a later run seeded and reloaded,
\* and the working copy is still the committed list.
C7_Witness ==
    /\ pc = "tabs"
    /\ "chapters" \in DOMAIN session
    /\ session["chapters"] = << >>
    /\ db["chapters"] = Demo

\* Every field of the row is empty: "", None or an unchecked box.
EntirelyBlank(r) == \A f \in DOMAIN r : r[f] \in {"", NoneVal, FalseVal}

NotBlank(r) == ~EntirelyBlank(r)

\* C8: Save passes and Save todos store exactly the submitted rows that are
\* not entirely blank, in the submitted order.
C8_BlankRowsDropped ==
    [][ \A k \in {"passes", "todos"} :
            (SaveStep(k) /\ raised' # "write") =>
                db'[Mapping[k]] = SelectSeq(edited', NotBlank)
      ]_vars

\* A chapter's words, and its baseline, as the dashboard is meant to count them.
WordsOf(ch) == IF "word_count" \in DOMAIN ch THEN ch["word_count"] ELSE 0

BaselineOf(ch) ==
    IF "start_words" \in DOMAIN ch THEN ch["start_words"]
    ELSE IF "word_count" \in DOMAIN ch THEN ch["word_count"]
    ELSE 0

\* What a chapter adds to delta: nothing when it has no start_words.
GrowthOf(ch) ==
    IF "start_words" \in DOMAIN ch THEN WordsOf(ch) - ch["start_words"] ELSE 0

RECURSIVE SumOver(_, _)
SumOver(F(_), chapters) ==
    IF chapters = << >> THEN 0
    ELSE SumOver(F, SubSeq(chapters, 1, Len(chapters) - 1)) + F(chapters[Len(chapters)])

SpecExample == << [word_count |-> 1000, start_words |-> 800], [word_count |-> 500] >>

\* C9: the dashboard's total is the sum of word_count (0 when missing), its
\* baseline the sum of start_words, else word_count, else 0, its delta their
\* difference, to which a chapter without start_words adds nothing; the
\* spec's example gives 1500, 1300 and 200.
C9_Aggregates ==
    pc = "tabs" =>
        LET chapters == session["chapters"]
        IN  /\ dash.total_words = SumOver(WordsOf, chapters)
            /\ dash.start_words = SumOver(BaselineOf, chapters)
            /\ dash.delta = dash.total_words - dash.start_words
            /\ dash.delta = SumOver(GrowthOf, chapters)
            /\ chapters = SpecExample =>
                  dash = [total_words |-> 1500, start_words |-> 1300, delta |-> 200]

\* The dashboard was computed for the spec's example.
C9_Witness ==
    /\ pc = "tabs"
    /\ session["chapters"] = SpecExample
    /\ dash.delta = 200

\* C10: a Save handler that submits no record goes through and leaves its
\* table empty, and while the working copy of a collection is the empty list
\* (an empty list was saved, or loaded, and nothing was saved since), the
\* stored collection is empty.
C10_EmptyStaysEmpty ==
    [][ \A k \in Keys :
            /\ (SaveStep(k) /\ Submitted(k, edited') = << >>) =>
                  (raised' # "write" /\ db'[Mapping[k]] = << >>)
            /\ (k \in DOMAIN session' /\ session'[k] = << >>) =>
                  db'[Mapping[k]] = << >>
      ]_vars

====
